---------------------------- MODULE Spec2Model ----------------------------
(***************************************************************************)
(* Water Quality Data Explorer (src/streamlit_app.py).                     *)
(*                                                                         *)
(* The script is re-executed from its first line on every interaction.     *)
(* One execution is modelled as the steps LoadFiles, SelectContaminant,    *)
(* SelectRanges, FilterAndDisplay; Rerun starts the next execution on the  *)
(* same two uploaded files.  Both files are uploaded (line 22 holds).      *)
(*                                                                         *)
(* A table is a record [none, cols, rows]; a row is a function from the    *)
(* column names of its table to cells.  A cell read from a file is text    *)
(* (the text "NaN" is what read_csv turns into a missing cell); a coerced  *)
(* value cell is a number, a coerced date cell is a day number.  Date      *)
(* cells of the inputs carry no time of day.                               *)
(***************************************************************************)
EXTENDS Integers, Sequences, FiniteSets, TLC

\* ------------------------------------------------------------ column names
LOCATION_ID_COL_LOC == "MonitoringLocationIdentifier"
LATITUDE_COL == "LatitudeMeasure"
LONGITUDE_COL == "LongitudeMeasure"
LOCATION_ID_COL_WQ == "MonitoringLocationIdentifier"
CONTAMINANT_COL == "CharacteristicName"
VALUE_COL == "ResultMeasureValue"
DATE_COL == "ActivityStartDate"

LocCols == {LOCATION_ID_COL_LOC, LATITUDE_COL, LONGITUDE_COL}
WqCols == {LOCATION_ID_COL_WQ, CONTAMINANT_COL, VALUE_COL, DATE_COL}

\* ------------------------------------------------------------------ bounds
MaxLocRows == 2
MaxWqRows == 2

\* --------------------------------------------------------- pandas, python
\* A missing cell / the result of a failed coercion.
NaN == "NaN"
NaNValue == 0 - 1
NaT == 0 - 1
None == [none |-> TRUE]
NoSelection == "<None>"

DataFrame(cols, rows) == [none |-> FALSE, cols |-> cols, rows |-> rows]

\* pd.to_numeric(text, errors='coerce')
to_numeric(s) ==
  CASE s = "1" -> 1
    [] s = "2" -> 2
    [] OTHER -> NaNValue

\* pd.to_datetime(text, errors='coerce'), as a day number
to_datetime(s) ==
  CASE s = "2020-01-01" -> 1
    [] s = "2020-01-02" -> 2
    [] OTHER -> NaT

\* Position of a date text in the order of str, which Series.min()/max()
\* of an uncoerced text column use.
StrRank(s) ==
  CASE s = "2020-01-01" -> 1
    [] s = "2020-01-01x" -> 2
    [] s = "2020-01-02" -> 3
    [] OTHER -> 4

\* date.fromisoformat: the texts st.date_input accepts as a default value.
IsIsoDate(s) == s \in {"2020-01-01", "2020-01-02"}
fromisoformat(s) == IF s = "2020-01-01" THEN 1 ELSE 2

\* elementwise == of a column with a scalar: a missing cell equals nothing
Eq(cell, x) == cell # NaN /\ cell = x

Range(s) == {s[i] : i \in DOMAIN s}
Column(df, col) == [i \in DOMAIN df.rows |-> df.rows[i][col]]
MinOf(S) == CHOOSE x \in S : \A y \in S : x <= y
MaxOf(S) == CHOOSE x \in S : \A y \in S : x >= y

\* Series.unique(): the distinct cells in order of first appearance
RECURSIVE unique(_)
unique(s) ==
  IF s = << >> THEN << >>
  ELSE LET front == unique(SubSeq(s, 1, Len(s) - 1))
           last == s[Len(s)]
       IN IF last \in Range(front) THEN front ELSE Append(front, last)

\* Series.min() / Series.max() of the uncoerced date column (text cells)
SeriesMinStr(s) ==
  IF s = << >> THEN NaN
  ELSE CHOOSE x \in Range(s) : \A y \in Range(s) : StrRank(x) <= StrRank(y)
SeriesMaxStr(s) ==
  IF s = << >> THEN NaN
  ELSE CHOOSE x \in Range(s) : \A y \in Range(s) : StrRank(x) >= StrRank(y)

\* ------------------------------------------------------------------ inputs
LocRowSamples ==
  { [MonitoringLocationIdentifier |-> "A", LatitudeMeasure |-> 40, LongitudeMeasure |-> 0 - 74],
    [MonitoringLocationIdentifier |-> "B", LatitudeMeasure |-> 41, LongitudeMeasure |-> 0 - 73] }

WqRow(id, c, v, d) ==
  [MonitoringLocationIdentifier |-> id, CharacteristicName |-> c,
   ResultMeasureValue |-> v, ActivityStartDate |-> d]

\* every well-formed Lead row over two stations, two values and two days, and
\* one row of each irregular kind: an unparseable value, an unparseable date,
\* another contaminant, a missing identifier
WqRowSamples ==
  { WqRow(id, "Lead", v, d) : id \in {"A", "B"}, v \in {"1", "2"},
                               d \in {"2020-01-01", "2020-01-02"} }
  \cup { WqRow("B", "Lead", "abc", "2020-01-02"),
         WqRow("A", "Lead", "1", "2020-01-01x"),
         WqRow("A", "Zinc", "1", "2020-01-02"),
         WqRow(NaN, "Lead", "2", "2020-01-02") }

Restrict(row, cols) == [c \in cols |-> row[c]]
Tables(samples, cols, max) ==
  UNION { [1..n -> {Restrict(r, cols) : r \in samples}] : n \in 0..max }

Malformed == [readable |-> FALSE, cols |-> {}, rows |-> << >>]
CsvFiles(samples, cols, max) ==
  { [readable |-> TRUE, cols |-> cols, rows |-> t] : t \in Tables(samples, cols, max) }

\* the dates a date picker can be set to, the values a slider can be set to
Days == {1, 2}
SliderValues(lo, hi) == lo..hi

\* ------------------------------------------------------------------- state
VARIABLES
  location_file, wq_file,      \* the two uploaded files (lines 10-11)
  pc,                          \* position of the running script
  location_df, wq_df,          \* lines 24, 31
  messages,                    \* st.success / st.error / st.warning / st.info
  exception,                   \* the exception that ended the run, if any
  selected_contaminant,        \* line 39
  contaminant_df,              \* lines 42-50
  slider,                      \* min_value / max_value of the slider, 58-59
  selected_range,              \* min_val, max_val (line 66)
  date_bounds,                 \* min_date, max_date (lines 69-70)
  date_range,                  \* start_date, end_date (lines 71-72)
  filtered_wq_df,              \* lines 75-80
  merged_df,                   \* lines 90-96
  m,                           \* the folium map handed to st_folium
  fig                          \* the figure handed to st.pyplot

vars == << location_file, wq_file, pc, location_df, wq_df, messages, exception,
           selected_contaminant, contaminant_df, slider, selected_range,
           date_bounds, date_range, filtered_wq_df, merged_df, m, fig >>

files == << location_file, wq_file >>
loaded == << location_df, wq_df >>
selection == << selected_contaminant, contaminant_df >>
ranges == << slider, selected_range, date_bounds, date_range >>
outputs == << filtered_wq_df, merged_df, m, fig >>

NoException == [type |-> "none", arg |-> "", line |-> 0]
Raised(type, arg, line) == [type |-> type, arg |-> arg, line |-> line]
Message(level, text, arg) == [level |-> level, text |-> text, arg |-> arg]

\* ----------------------------------------------------------- lines 22-37
read_csv(file) ==
  IF file.readable THEN DataFrame(file.cols, file.rows) ELSE None

LoadMessage(file, name) ==
  IF file.readable
    THEN Message("success", "database uploaded successfully!", name)
    ELSE Message("error", "Error loading database", name)

\* line 37 testing one table only
BothLoaded_WqOnly(l, w) == ~w.none

BothLoaded(l, w) == ~l.none /\ ~w.none

LoadFiles ==
  /\ pc = "start"
  /\ location_df' = read_csv(location_file)
  /\ wq_df' = read_csv(wq_file)
  /\ messages' = << LoadMessage(location_file, "location"),
                    LoadMessage(wq_file, "water quality") >>
  /\ pc' = IF BothLoaded(location_df', wq_df') THEN "loaded" ELSE "done"
  /\ UNCHANGED << files, exception, selection, ranges, outputs >>

\* ----------------------------------------------------------- lines 38-55
\* wq_df[wq_df[CONTAMINANT_COL] == selected_contaminant].copy()
SelectRows(wq, sel) ==
  DataFrame(wq.cols, SelectSeq(wq.rows, LAMBDA r : Eq(r[CONTAMINANT_COL], sel)))

\* assignment of the coerced column, then dropna(subset=[col], inplace=True)
CoerceValue(df) ==
  LET coerced == [i \in DOMAIN df.rows |->
                    [df.rows[i] EXCEPT ![VALUE_COL] = to_numeric(@)]]
  IN DataFrame(df.cols, SelectSeq(coerced, LAMBDA r : r[VALUE_COL] # NaNValue))

CoerceDate(df) ==
  LET coerced == [i \in DOMAIN df.rows |->
                    [df.rows[i] EXCEPT ![DATE_COL] = to_datetime(@)]]
  IN DataFrame(df.cols, SelectSeq(coerced, LAMBDA r : r[DATE_COL] # NaT))

\* line 42 narrowing wq_df itself to the selected contaminant
Coercion_OnWqDf(wq, sel) ==
  [wq_df |-> SelectRows(wq, sel),
   contaminant_df |-> CoerceDate(CoerceValue(SelectRows(wq, sel)))]

\* What lines 42-50 leave in wq_df and in contaminant_df.
Coercion(wq, sel) ==
  [wq_df |-> wq, contaminant_df |-> CoerceDate(CoerceValue(SelectRows(wq, sel)))]

\* the options of the selectbox and what it returns
Options(wq) == Range(unique(Column(wq, CONTAMINANT_COL)))
Selectable(wq) == IF wq.rows = << >> THEN {NoSelection} ELSE Options(wq)

SelectContaminant ==
  /\ pc = "loaded"
  /\ IF CONTAMINANT_COL \notin wq_df.cols
       THEN /\ exception' = Raised("KeyError", CONTAMINANT_COL, 38)
            /\ pc' = "done"
            /\ UNCHANGED << wq_df, selection >>
       ELSE \E sel \in Selectable(wq_df) :
              /\ selected_contaminant' = sel
              /\ IF VALUE_COL \notin wq_df.cols
                   THEN /\ exception' = Raised("KeyError", VALUE_COL, 45)
                        /\ contaminant_df' = SelectRows(wq_df, sel)
                        /\ pc' = "done"
                        /\ UNCHANGED wq_df
                   ELSE IF DATE_COL \notin wq_df.cols
                   THEN /\ exception' = Raised("KeyError", DATE_COL, 49)
                        /\ contaminant_df' = CoerceValue(SelectRows(wq_df, sel))
                        /\ pc' = "done"
                        /\ UNCHANGED wq_df
                   ELSE /\ contaminant_df' = Coercion(wq_df, sel).contaminant_df
                        /\ wq_df' = Coercion(wq_df, sel).wq_df
                        /\ pc' = "selected"
                        /\ UNCHANGED exception
  /\ UNCHANGED << files, location_df, messages, ranges, outputs >>

\* ----------------------------------------------------------- lines 58-72
min_val_contaminant(df) ==
  IF df.rows # << >> THEN MinOf(Range(Column(df, VALUE_COL))) ELSE 0
max_val_contaminant(df) ==
  IF df.rows # << >> THEN MaxOf(Range(Column(df, VALUE_COL))) ELSE 1

min_date(wq) == SeriesMinStr(Column(wq, DATE_COL))
max_date(wq) == SeriesMaxStr(Column(wq, DATE_COL))

SelectRanges ==
  /\ pc = "selected"
  /\ slider' = [min_value |-> min_val_contaminant(contaminant_df),
                max_value |-> max_val_contaminant(contaminant_df)]
  /\ \E lo, hi \in SliderValues(slider'.min_value, slider'.max_value) :
       /\ lo <= hi
       /\ selected_range' = [none |-> FALSE, min_val |-> lo, max_val |-> hi]
  /\ date_bounds' = [none |-> FALSE, min_date |-> min_date(wq_df),
                     max_date |-> max_date(wq_df)]
  /\ IF ~IsIsoDate(date_bounds'.min_date)
       THEN /\ exception' = Raised("StreamlitAPIException", "Start Date", 71)
            /\ pc' = "done"
            /\ UNCHANGED date_range
       ELSE IF ~IsIsoDate(date_bounds'.max_date)
       THEN /\ exception' = Raised("StreamlitAPIException", "End Date", 72)
            /\ pc' = "done"
            /\ UNCHANGED date_range
       ELSE /\ \E s, e \in Days :
                 date_range' = [none |-> FALSE, start_date |-> s, end_date |-> e]
            /\ pc' = "ranged"
            /\ UNCHANGED exception
  /\ UNCHANGED << files, loaded, messages, selection, outputs >>

\* ----------------------------------------------------------- lines 75-80
\* pd.to_datetime of a picked date: the midnight that begins the day
to_timestamp(day) == day

\* lines 76-79 with the end date excluded
InRange_EndExcluded(row, min_val, max_val, start_date, end_date) ==
  /\ row[VALUE_COL] >= min_val
  /\ row[VALUE_COL] <= max_val
  /\ row[DATE_COL] >= to_timestamp(start_date)
  /\ row[DATE_COL] < to_timestamp(end_date)

InRange(row, min_val, max_val, start_date, end_date) ==
  /\ row[VALUE_COL] >= min_val
  /\ row[VALUE_COL] <= max_val
  /\ row[DATE_COL] >= to_timestamp(start_date)
  /\ row[DATE_COL] <= to_timestamp(end_date)

Filter(df, min_val, max_val, start_date, end_date) ==
  DataFrame(df.cols,
            SelectSeq(df.rows,
                      LAMBDA r : InRange(r, min_val, max_val, start_date, end_date)))

\* ----------------------------------------------------------- lines 90-96
\* how="left": a left row without a match is kept, its right cells missing
Matches_LeftJoin(l, right) ==
  LET hit == SelectSeq(right.rows,
                       LAMBDA r : r[LOCATION_ID_COL_WQ] = l[LOCATION_ID_COL_LOC])
  IN IF hit = << >> THEN << l @@ [c \in right.cols |-> NaN] >>
     ELSE [i \in DOMAIN hit |-> l @@ hit[i]]

\* the rows of the right table whose key equals the key of one left row
Matches(l, right) ==
  LET hit == SelectSeq(right.rows,
                       LAMBDA r : r[LOCATION_ID_COL_WQ] = l[LOCATION_ID_COL_LOC])
  IN [i \in DOMAIN hit |-> l @@ hit[i]]

RECURSIVE MergeRows(_, _, _)
MergeRows(left, right, n) ==
  IF n = 0 THEN << >>
  ELSE MergeRows(left, right, n - 1) \o Matches(left.rows[n], right)

\* pd.merge(left, right, left_on=..., right_on=..., how="inner")
Merge(left, right) ==
  DataFrame(left.cols \cup right.cols, MergeRows(left, right, Len(left.rows)))

\* ---------------------------------------------------------- lines 98-110
RECURSIVE Sum(_)
Sum(s) == IF s = << >> THEN 0 ELSE s[1] + Sum(Tail(s))

\* a mean, kept as the pair (sum, count)
Mean(s) == << Sum(s), Len(s) >>

\* one folium.Marker per iteration of merged_df.iterrows()
Markers(merged) ==
  [i \in DOMAIN merged.rows |->
     [location |-> << merged.rows[i][LATITUDE_COL], merged.rows[i][LONGITUDE_COL] >>,
      popup |-> merged.rows[i][LOCATION_ID_COL_WQ]]]

FoliumMap(merged) ==
  [none |-> FALSE,
   location |-> << Mean(Column(merged, LATITUDE_COL)),
                   Mean(Column(merged, LONGITUDE_COL)) >>,
   markers |-> Markers(merged)]

NoStationsWarning ==
  Message("warning",
          "No monitoring stations found with the selected contaminant in the specified range.",
          "")
NoDataInfo ==
  Message("info",
          "No data found for the selected contaminant within the specified value and date ranges.",
          "")
ColumnError(col) ==
  Message("error",
          "Error: Could not find latitude or longitude columns in the merged data",
          col)

\* lines 98-110 with the info message of line 128 in place of the warning
MapDisplay_InfoForNoStations(merged) ==
  IF merged.rows = << >>
    THEN [messages |-> << NoDataInfo >>, m |-> None]
  ELSE IF LATITUDE_COL \notin merged.cols
    THEN [messages |-> << ColumnError(LATITUDE_COL) >>, m |-> None]
  ELSE IF LONGITUDE_COL \notin merged.cols
    THEN [messages |-> << ColumnError(LONGITUDE_COL) >>, m |-> None]
  ELSE [messages |-> << >>, m |-> FoliumMap(merged)]

\* what lines 98-110 add to the page: the messages and the map
MapDisplay(merged) ==
  IF merged.rows = << >>
    THEN [messages |-> << NoStationsWarning >>, m |-> None]
  ELSE IF LATITUDE_COL \notin merged.cols
    THEN [messages |-> << ColumnError(LATITUDE_COL) >>, m |-> None]
  ELSE IF LONGITUDE_COL \notin merged.cols
    THEN [messages |-> << ColumnError(LONGITUDE_COL) >>, m |-> None]
  ELSE [messages |-> << >>, m |-> FoliumMap(merged)]

\* --------------------------------------------------------- lines 112-125
\* line 116 without sort_values
sort_values_Omitted(rows) == rows

\* sort_values(by=DATE_COL): insertion of each row after the rows not later
RECURSIVE sort_values(_)
sort_values(rows) ==
  IF rows = << >> THEN << >>
  ELSE LET front == sort_values(SubSeq(rows, 1, Len(rows) - 1))
           last == rows[Len(rows)]
           keep == SelectSeq(front, LAMBDA r : r[DATE_COL] <= last[DATE_COL])
           rest == SelectSeq(front, LAMBDA r : r[DATE_COL] > last[DATE_COL])
       IN keep \o << last >> \o rest

site_data(filtered, site) ==
  sort_values(SelectSeq(filtered.rows,
                        LAMBDA r : Eq(r[LOCATION_ID_COL_WQ], site)))

\* one ax.plot per unique site, labelled with the site
TrendPlot(filtered) ==
  LET sites == unique(Column(filtered, LOCATION_ID_COL_WQ))
  IN [none |-> FALSE,
      series |-> [k \in DOMAIN sites |->
                    [label |-> sites[k], rows |-> site_data(filtered, sites[k])]]]

\* ---------------------------------------------------------- lines 75-128
FilterAndDisplay ==
  /\ pc = "ranged"
  /\ filtered_wq_df' = Filter(contaminant_df, selected_range.min_val,
                              selected_range.max_val, date_range.start_date,
                              date_range.end_date)
  /\ pc' = "done"
  /\ IF filtered_wq_df'.rows = << >>
       THEN /\ messages' = Append(messages, NoDataInfo)
            /\ UNCHANGED << exception, merged_df, m, fig >>
       ELSE IF \/ LOCATION_ID_COL_LOC \notin location_df.cols
               \/ LOCATION_ID_COL_WQ \notin filtered_wq_df'.cols
       THEN /\ exception' = Raised("KeyError", LOCATION_ID_COL_LOC, 90)
            /\ UNCHANGED << messages, merged_df, m, fig >>
       ELSE /\ merged_df' = Merge(location_df, filtered_wq_df')
            /\ messages' = messages \o MapDisplay(merged_df').messages
            /\ m' = MapDisplay(merged_df').m
            /\ fig' = TrendPlot(filtered_wq_df')
            /\ UNCHANGED exception
  /\ UNCHANGED << files, loaded, selection, ranges >>

\* ------------------------------------------------------- the next execution
Rerun ==
  /\ pc = "done"
  /\ pc' = "start"
  /\ location_df' = None
  /\ wq_df' = None
  /\ messages' = << >>
  /\ exception' = NoException
  /\ selected_contaminant' = NoSelection
  /\ contaminant_df' = None
  /\ slider' = None
  /\ selected_range' = None
  /\ date_bounds' = None
  /\ date_range' = None
  /\ filtered_wq_df' = None
  /\ merged_df' = None
  /\ m' = None
  /\ fig' = None
  /\ UNCHANGED files

\* --------------------------------------------------------- specifications
Fresh ==
  /\ pc = "start"
  /\ location_df = None
  /\ wq_df = None
  /\ messages = << >>
  /\ exception = NoException
  /\ selected_contaminant = NoSelection
  /\ contaminant_df = None
  /\ slider = None
  /\ selected_range = None
  /\ date_bounds = None
  /\ date_range = None
  /\ filtered_wq_df = None
  /\ merged_df = None
  /\ m = None
  /\ fig = None

\* every expected column is present; either file may be unreadable
Init ==
  /\ location_file \in {Malformed} \cup CsvFiles(LocRowSamples, LocCols, MaxLocRows)
  /\ wq_file \in {Malformed} \cup CsvFiles(WqRowSamples, WqCols, MaxWqRows)
  /\ Fresh

\* both files are readable; at most one expected column is absent
InitCols ==
  /\ \E c \in LocCols \cup {"none"} :
       location_file \in CsvFiles(LocRowSamples, LocCols \ {c}, MaxLocRows)
  /\ \E c \in WqCols \cup {"none"} :
       wq_file \in CsvFiles(WqRowSamples, WqCols \ {c}, MaxWqRows)
  /\ location_file.cols = LocCols \/ wq_file.cols = WqCols
  /\ Fresh

Next ==
  \/ LoadFiles
  \/ SelectContaminant
  \/ SelectRanges
  \/ FilterAndDisplay
  \/ Rerun

Spec == Init /\ [][Next]_vars
SpecCols == InitCols /\ [][Next]_vars

\* ------------------------------------------------------------------ claims
Count(s, x) == Cardinality({i \in DOMAIN s : s[i] = x})
Finished == pc = "done" /\ exception = NoException
Displayed == SubSeq(messages, 3, Len(messages))
Unparseable(row) ==
  to_numeric(row[VALUE_COL]) = NaNValue \/ to_datetime(row[DATE_COL]) = NaT
Sorted(rows) ==
  \A i, j \in DOMAIN rows : i < j => rows[i][DATE_COL] <= rows[j][DATE_COL]

\* C1: every row of filtered_wq_df carries a parsed number and a parsed date,
\* and an uploaded measurement row whose value or date does not parse never
\* aborts the run.
C1_BadRowsDroppedNotFatal ==
  /\ ~filtered_wq_df.none =>
       \A r \in Range(filtered_wq_df.rows) :
         r[VALUE_COL] \in {1, 2} /\ r[DATE_COL] \in {1, 2}
  /\ (wq_file.readable /\ \E r \in Range(wq_file.rows) : Unparseable(r)) =>
       exception = NoException

\* C2: a cleaned row of the selected contaminant is in filtered_wq_df exactly
\* when min_val <= value <= max_val and start_date <= date <= end_date, the
\* four bounds included.
C2_InclusiveRange ==
  ~filtered_wq_df.none =>
    /\ Range(filtered_wq_df.rows) \subseteq Range(contaminant_df.rows)
    /\ \A r \in Range(contaminant_df.rows) :
         IF /\ selected_range.min_val <= r[VALUE_COL]
            /\ r[VALUE_COL] <= selected_range.max_val
            /\ date_range.start_date <= r[DATE_COL]
            /\ r[DATE_COL] <= date_range.end_date
           THEN Count(filtered_wq_df.rows, r) = Count(contaminant_df.rows, r)
           ELSE Count(filtered_wq_df.rows, r) = 0

\* rows on the lower value bound and the end date, and on the upper value
\* bound and the start date, are retained by a proper range
C2_Witness ==
  /\ ~filtered_wq_df.none
  /\ selected_range.min_val < selected_range.max_val
  /\ date_range.start_date < date_range.end_date
  /\ \E r \in Range(filtered_wq_df.rows) :
       r[VALUE_COL] = selected_range.min_val /\ r[DATE_COL] = date_range.end_date
  /\ \E r \in Range(filtered_wq_df.rows) :
       r[VALUE_COL] = selected_range.max_val /\ r[DATE_COL] = date_range.start_date

JoinedIdsInBoth ==
  \A r \in Range(merged_df.rows) :
    /\ r[LOCATION_ID_COL_WQ] \in Range(Column(filtered_wq_df, LOCATION_ID_COL_WQ))
    /\ r[LOCATION_ID_COL_LOC] \in Range(Column(location_df, LOCATION_ID_COL_LOC))
UniqueLocationIds ==
  \A i, j \in DOMAIN location_df.rows :
    location_df.rows[i][LOCATION_ID_COL_LOC] = location_df.rows[j][LOCATION_ID_COL_LOC]
      => i = j

\* C3 as stated: for every input each row of merged_df carries an identifier
\* present in filtered_wq_df and in location_df, and merged_df has no more
\* rows than filtered_wq_df.
C3_InnerJoinLaw ==
  ~merged_df.none =>
    /\ JoinedIdsInBoth
    /\ Len(merged_df.rows) <= Len(filtered_wq_df.rows)

\* C3 as amended: each row of merged_df carries an identifier present in both
\* tables, and merged_df has no more rows than filtered_wq_df when no
\* identifier occurs twice in the location table.
C3_InnerJoinLawUniqueIds ==
  ~merged_df.none =>
    /\ JoinedIdsInBoth
    /\ UniqueLocationIds => Len(merged_df.rows) <= Len(filtered_wq_df.rows)

\* a join that dropped an unmatched filtered row and kept a matched one
C3_Witness ==
  /\ ~merged_df.none
  /\ UniqueLocationIds
  /\ merged_df.rows # << >>
  /\ Len(merged_df.rows) < Len(filtered_wq_df.rows)

\* C4: the slider bounds are the least and greatest value of contaminant_df
\* (0 and 1 when it is empty), and the default start and end dates are the
\* least and greatest date of contaminant_df.
C4_DefaultBounds ==
  (~date_range.none /\ exception = NoException) =>
    /\ slider.min_value =
         IF contaminant_df.rows = << >> THEN 0
         ELSE MinOf(Range(Column(contaminant_df, VALUE_COL)))
    /\ slider.max_value =
         IF contaminant_df.rows = << >> THEN 1
         ELSE MaxOf(Range(Column(contaminant_df, VALUE_COL)))
    /\ contaminant_df.rows # << >> =>
         /\ fromisoformat(date_bounds.min_date) =
              MinOf(Range(Column(contaminant_df, DATE_COL)))
         /\ fromisoformat(date_bounds.max_date) =
              MaxOf(Range(Column(contaminant_df, DATE_COL)))

MissingColumns == (LocCols \ location_file.cols) \cup (WqCols \ wq_file.cols)

\* C5: a run on tables that lack an expected column ends with an error
\* message naming that column, with no unhandled exception, no map and no
\* chart.
C5_MissingColumnReported ==
  (pc = "done" /\ MissingColumns # {}) =>
    /\ exception = NoException
    /\ \A c \in MissingColumns :
         \E i \in DOMAIN messages : messages[i].level = "error" /\ messages[i].arg = c
    /\ m.none
    /\ fig.none

\* C6: when either file cannot be read, an error naming that dataset is
\* reported and the run ends with no selection, no cleaned, filtered or
\* joined table, no map and no chart.
C6_LoadErrorStops ==
  (pc # "start" /\ (~location_file.readable \/ ~wq_file.readable)) =>
    /\ ~location_file.readable =>
         \E i \in DOMAIN messages :
           messages[i].level = "error" /\ messages[i].arg = "location"
    /\ ~wq_file.readable =>
         \E i \in DOMAIN messages :
           messages[i].level = "error" /\ messages[i].arg = "water quality"
    /\ pc = "done"
    /\ exception = NoException
    /\ selected_contaminant = NoSelection
    /\ contaminant_df.none /\ selected_range.none /\ date_range.none
    /\ filtered_wq_df.none /\ merged_df.none /\ m.none /\ fig.none

\* the location file is unreadable while the measurement file loaded
C6_Witness ==
  /\ pc = "done"
  /\ ~location_file.readable
  /\ wq_file.readable /\ wq_file.rows # << >>
  /\ ~wq_df.none

\* C7 as stated: the three empty results have three messages of their own,
\* none an error: no station matches, no row in range, no usable row at all;
\* in particular a run whose cleaned subset is empty does not emit the
\* message of the runs whose ranges excluded every cleaned row.
C7_ThreeDistinctMessages ==
  (Finished /\ ~filtered_wq_df.none) =>
    /\ (filtered_wq_df.rows # << >> /\ merged_df.rows = << >>) =>
         Displayed = << NoStationsWarning >>
    /\ (contaminant_df.rows # << >> /\ filtered_wq_df.rows = << >>) =>
         Displayed = << NoDataInfo >>
    /\ contaminant_df.rows = << >> =>
         /\ Len(Displayed) = 1
         /\ Displayed[1].level # "error"
         /\ Displayed[1] \notin {NoDataInfo, NoStationsWarning}

\* C7 as amended: there are two messages, neither an error: the warning when
\* the filtered subset is non-empty and no identifier matches a location, and
\* one info message whenever the filtered subset is empty, whether the ranges
\* excluded every cleaned row or no row was usable; a run emits exactly the
\* message of its case, and none when the join is non-empty.
C7_TwoMessages ==
  /\ NoStationsWarning # NoDataInfo
  /\ NoStationsWarning.level # "error" /\ NoDataInfo.level # "error"
  /\ (Finished /\ ~filtered_wq_df.none) =>
       /\ (filtered_wq_df.rows # << >> /\ merged_df.rows = << >>) =>
            Displayed = << NoStationsWarning >>
       /\ filtered_wq_df.rows = << >> => Displayed = << NoDataInfo >>
       /\ (filtered_wq_df.rows # << >> /\ merged_df.rows # << >>) =>
            Displayed = << >>

\* a run on a contaminant without a usable row, and so without a range to miss
C7_Witness ==
  /\ Finished
  /\ ~filtered_wq_df.none
  /\ contaminant_df.rows = << >>
  /\ Displayed = << NoDataInfo >>

\* C8: wq_df and location_df hold the rows and raw cells of the uploaded files
\* at every point of every run.
C8_InputsNotMutated ==
  /\ ~wq_df.none => wq_df = read_csv(wq_file)
  /\ ~location_df.none => location_df = read_csv(location_file)

\* a finished run whose coercion dropped a row and whose filter kept one
C8_Witness ==
  /\ Finished
  /\ ~filtered_wq_df.none
  /\ filtered_wq_df.rows # << >>
  /\ Len(contaminant_df.rows) < Len(wq_df.rows)

SeriesOf(id) == {k \in DOMAIN fig.series : fig.series[k].label = id}
InSeries(r) ==
  /\ \A k \in DOMAIN fig.series :
       Count(fig.series[k].rows, r) =
         IF fig.series[k].label = r[LOCATION_ID_COL_WQ]
           THEN Count(filtered_wq_df.rows, r) ELSE 0
  /\ Cardinality(SeriesOf(r[LOCATION_ID_COL_WQ])) = 1
TrendDrawn ==
  /\ ~fig.none
  /\ \A k \in DOMAIN fig.series : Sorted(fig.series[k].rows)

\* C9 as stated: whenever filtered_wq_df is non-empty the chart is drawn,
\* every filtered row is in exactly one series, that of its identifier, and
\* every series is in ascending date order.
C9_TrendFromFiltered ==
  (Finished /\ ~filtered_wq_df.none /\ filtered_wq_df.rows # << >>) =>
    /\ TrendDrawn
    /\ \A r \in Range(filtered_wq_df.rows) : InSeries(r)

\* C9 as amended: the same for every filtered row whose identifier cell is
\* not missing.
C9_TrendFromFilteredWithId ==
  (Finished /\ ~filtered_wq_df.none /\ filtered_wq_df.rows # << >>) =>
    /\ TrendDrawn
    /\ \A r \in Range(filtered_wq_df.rows) :
         r[LOCATION_ID_COL_WQ] # NaN => InSeries(r)

\* a chart drawn although no station matched, with a series that had to be
\* put in date order
C9_Witness ==
  /\ Finished
  /\ ~fig.none
  /\ merged_df.rows = << >>
  /\ \E k \in DOMAIN fig.series :
       /\ Len(fig.series[k].rows) = 2
       /\ fig.series[k].rows # filtered_wq_df.rows
       /\ fig.series[k].rows[1][DATE_COL] < fig.series[k].rows[2][DATE_COL]

\* C10: the map carries one marker per distinct identifier of merged_df, at
\* the coordinates of a location row of that identifier and labelled with it.
C10_OneMarkerPerLocation ==
  ~m.none =>
    /\ Len(m.markers) =
         Cardinality(Range(Column(merged_df, LOCATION_ID_COL_WQ)))
    /\ \A i \in DOMAIN m.markers :
         \E l \in Range(location_df.rows) :
           /\ l[LOCATION_ID_COL_LOC] = m.markers[i].popup
           /\ m.markers[i].location = << l[LATITUDE_COL], l[LONGITUDE_COL] >>

=============================================================================
